---- MODULE Spec2Model ----
(***************************************************************************)
(* Voice session lifecycle of BizTalkAI: the useWebRTCVoice hook (two      *)
(* revisions are in the repository), the ChatPage call button that drives  *)
(* it, the realtime WebSocket relay, and the useLocalWhisper hook.         *)
(***************************************************************************)
EXTENDS Integers, Sequences, FiniteSets, TLC

NULL == 0          \* a ref holding null; handles and ids start at 1
NoText == ""
Undefined == "undefined"       \* an absent or empty string property (both are falsy)

\* ---------------------------------------------------------------- bounds
MaxStarts == 2      \* startSession invocations explored
MaxTimedStarts == 1 \* startSession invocations explored with the clock running
MaxLedger == 2      \* transcript entries explored
MaxTimedLedger == 1 \* transcript entries explored with the clock running
Epoch == 16         \* Date.now() at mount, in minutes (sessionStartTimeRef starts at 0)
Horizon == 9         \* minutes of wall-clock time explored after mount
LongHorizon == 17    \* minutes explored when looking for the hard limit
MaxIntervals == 2   \* latency-monitor intervals explored
MaxFrames == 3      \* frames arriving at one relay pair
MaxRecordings == 2  \* MediaRecorders created by one useLocalWhisper instance
MaxChunks == 2      \* audio chunks held in audioChunksRef
MaxRequests == 2    \* transcription requests issued
MaxTeardowns == 2   \* cleanup calls
HorizonSeconds == 4 \* how far the local transcriber's clock runs
LongHorizonSeconds == 15 \* seconds explored when looking for a maximum-recording timeout
MaxOtps == 2        \* sendOTP calls
AuthHorizon == 11   \* minutes of server time explored
MaxPending == 1     \* verifyOTP calls awaiting the database at once
MaxConcurrent == 2  \* the same, when looking at concurrent verifications

\* ------------------------------------------------------ program constants
OtpMinutes == 10
SILENCE_THRESHOLD == 3000
MAX_AUDIO_LENGTH == 15000
MIN_AUDIO_LENGTH == 500
AudioBitsPerSecond == 128000
IdleMinutes == 8
HardLimitMinutes == 15

VARIABLES
  rev,        \* which revision of the hook is mounted
  now,        \* Date.now(), in minutes
  hk,         \* the hook instance: React state, refs, and the browser objects it created
  ui,         \* ChatPage state around the call button
  lastOp,     \* the handler that ran last
  cancelled,  \* startSession invocations that were suspended when stopSession ran
  finals,     \* the texts of the final assistant-transcript events received
              \* since the ledger was last cleared, in arrival order
  audit       \* what an observer of the hook has noted: whether stopSession
              \* has run and no startSession call was made since, the call
              \* whose data channel last set sessionStartTimeRef (0: none),
              \* what the idle callback that just ran reported, and whether
              \* the handler that just ran threw

hookVars == <<rev, now, hk, ui, lastOp, cancelled, finals, audit>>

VARIABLES
  apiKey,          \* process.env.OPENAI_API_KEY is set
  setup,           \* where setupRealtimeWebSocket is
  clientWs,        \* clientWs.readyState
  openaiWs,        \* openaiWs.readyState ("NONE" before the socket is created)
  toOpenai,        \* frames passed to openaiWs.send, in order
  toClient,        \* frames passed to clientWs.send, in order
  received,        \* every frame a message handler received: its sender and
                   \* whether the other leg was open when it arrived
  clientCloseSeen, \* the client's close handler has run
  closedAt         \* where setupRealtimeWebSocket was when the client socket closed

relayVars == <<apiKey, setup, clientWs, openaiWs, toOpenai, toClient, received,
               clientCloseSeen, closedAt>>

VARIABLES
  lw,          \* the state and refs of one useLocalWhisper instance
  teardowns,   \* how many times cleanup has run
  delivered    \* the calls of onTranscriptionUpdate, in order: the transcription
               \* passed, and the teardown count when the request was issued
               \* and when its result was delivered

VARIABLES
  clock,       \* the time of the local transcriber, in seconds
  heard        \* the time the last non-empty audio chunk arrived

whisperVars == <<lw, teardowns, delivered, clock, heard>>

VARIABLES
  otpStorage,  \* the otpStorage map: phoneNumber -> stored OTP, NoOtp when absent
  authNow,     \* Date.now() of the server, in minutes
  verifying,   \* verifyOTP calls awaiting findOrCreateUserByPhone
  issuedAt,    \* when the OTP last sent to each phone number was issued
  nOtps,       \* sendOTP calls so far
  verdict,     \* what the verifyOTP call that just returned was given and returned
  authenticated \* how many verifyOTP calls each issued OTP has authenticated

authVars == <<otpStorage, authNow, verifying, issuedAt, nOtps, verdict, authenticated>>

vars == <<hookVars, relayVars, whisperVars, authVars>>

\* part_001 waits for the spoken welcome; hooks/useWebRTCVoice.ts declares
\* connected as soon as the transport is established.
Revs == {"welcome", "transport"}

Starts == 1..MaxStarts

\* ------------------------------------------------------------ data channel
UserTranscriptTypes == {
  "conversation.item.input_audio_transcription.completed",
  "conversation.item.input_audio_transcription.done",
  "conversation.item.input_audio_transcription.updated",
  "conversation.item.input_audio_transcription.delta" }

EventTypes == UserTranscriptTypes \cup {
  "conversation.item.input_audio_transcription.failed",
  "conversation.item.input_audio_transcription.started",
  "conversation.item.input_audio_transcription.created",
  "input_audio_buffer.speech_started",
  "input_audio_buffer.speech_stopped",
  "input_audio_buffer.committed",
  "response.audio_transcript.delta",
  "response.audio_transcript.done",
  "response.done",
  "error",
  "other" }

\* A parsed message: its type, its transcript property (NoText when absent
\* or empty) and the text item of the last output of data.response (NoText
\* when there is none).  "malformed" stands for a string JSON.parse rejects,
\* "binary" for a message whose data is a Blob or an ArrayBuffer.
Events ==
  [type : EventTypes, transcript : {NoText}, text : {NoText}]
    \cup [type : UserTranscriptTypes, transcript : {"hi"}, text : {NoText}]
    \cup [type : {"response.audio_transcript.done"},
          transcript : {"Hello!"}, text : {NoText}]
    \cup [type : {"response.done"}, transcript : {NoText}, text : {"hi"}]
    \cup [type : {"malformed", "binary"}, transcript : {NoText}, text : {NoText}]

\* ------------------------------------------------------------ hook helpers
\* addTranscriptionMessage as in hooks/useWebRTCVoice.ts, which takes and
\* stores neither isLocal nor confidence
addTranscriptionMessagePlain(s, speaker, text, isLocal, confidence) ==
  [s EXCEPT !.transcription =
     Append(@, [speaker |-> speaker, text |-> text, isLocal |-> FALSE,
                confidence |-> Undefined])]

\* a setState that puts the new message in front of the ledger
addTranscriptionMessageFirst(s, speaker, text, isLocal, confidence) ==
  [s EXCEPT !.transcription =
     <<[speaker |-> speaker, text |-> text, isLocal |-> isLocal,
        confidence |-> confidence]>> \o @]

addTranscriptionMessage(s, speaker, text, isLocal, confidence) ==
  [s EXCEPT !.transcription =
     Append(@, [speaker |-> speaker, text |-> text, isLocal |-> isLocal,
                confidence |-> confidence])]

updateConnectionStatus(s, status) ==
  [s EXCEPT !.connectionStatus = status]

\* setTimeout returns a handle that no pending timer and no ref holds
NewTimerId(s) ==
  CHOOSE n \in 1..(Cardinality(s.timers) + 2) :
    /\ n \notin {x.id : x \in s.timers}
    /\ n # s.idleTimeoutRef

clearTimeout(timers, id) == {x \in timers : x.id # id}

\* resetActivityTimer without its clearTimeout of the previous countdown
resetActivityTimerNoClear(s, t) ==
  LET id == NewTimerId(s)
  IN [s EXCEPT !.lastActivityTimeRef = t,
               !.timers = @ \cup {[id |-> id, due |-> t + IdleMinutes]},
               !.idleTimeoutRef = id]

resetActivityTimer(s, t) ==
  LET c == IF s.idleTimeoutRef # NULL
             THEN [s EXCEPT !.timers = clearTimeout(@, s.idleTimeoutRef)]
             ELSE s
      id == NewTimerId(c)
  IN [c EXCEPT !.lastActivityTimeRef = t,
               !.timers = @ \cup {[id |-> id, due |-> t + IdleMinutes]},
               !.idleTimeoutRef = id]

clearAllTimeouts(s) ==
  IF s.idleTimeoutRef # NULL
    THEN [s EXCEPT !.timers = clearTimeout(@, s.idleTimeoutRef),
                   !.idleTimeoutRef = NULL]
    ELSE s

\* RTCPeerConnection.close() also closes its data channel
closePeerConnection(s) ==
  IF s.peerConnectionRef # NULL
    THEN [s EXCEPT !.pcs[s.peerConnectionRef] = "closed",
                   !.dcs[s.peerConnectionRef] = FALSE,
                   !.peerConnectionRef = NULL]
    ELSE s

stopLocalStream(s) ==
  IF s.localStreamRef # NULL
    THEN [s EXCEPT !.streams[s.localStreamRef] = "stopped",
                   !.localStreamRef = NULL]
    ELSE s

clearLatencyInterval(s) ==
  IF s.latencyCheckIntervalRef # NULL
    THEN [s EXCEPT !.intervals = @ \ {s.latencyCheckIntervalRef},
                   !.latencyCheckIntervalRef = NULL]
    ELSE s

resetAudioElement(s) ==
  IF s.audioElementRef THEN [s EXCEPT !.srcObject = NULL] ELSE s

resetSessionState(s) ==
  [s EXCEPT !.connectionStatus = "idle",
            !.isSessionActive = FALSE,
            !.sessionId = NULL,
            !.transcription = << >>]

stopSession(s) ==
  resetSessionState(
    resetAudioElement(
      stopLocalStream(
        closePeerConnection(
          clearLatencyInterval(
            [clearAllTimeouts(s) EXCEPT !.hasReceivedWelcomeRef = FALSE])))))

\* the catch block of startSession up to its call of stopSessionRef.current()
catchError(s, i) ==
  updateConnectionStatus([s EXCEPT !.pos[i] = "failed"], "error")

\* handleBeforeUnload: it acts only when state.isSessionActive, and leaves
\* the React state alone
handleBeforeUnload(s) ==
  IF s.isSessionActive
    THEN LET a == clearAllTimeouts(s)
             b == IF a.peerConnectionRef # NULL
                    THEN [a EXCEPT !.pcs[a.peerConnectionRef] = "closed",
                                   !.dcs[a.peerConnectionRef] = FALSE]
                    ELSE a
         IN IF b.localStreamRef # NULL
              THEN [b EXCEPT !.streams[b.localStreamRef] = "stopped"]
              ELSE b
    ELSE s

\* the cleanup of the unload effect when the component unmounts
unmountCleanup(s) ==
  IF s.isSessionActive THEN clearAllTimeouts(s) ELSE s

\* ----------------------------------------------------- dataChannel.onmessage
\* part_001: the else-if chain in source order; the second test of
\* ...transcription.updated (the one that appends) is shadowed by the first
OnMessageWelcome(s, ev) ==
  LET ty == ev.type IN
  IF ty = "conversation.item.input_audio_transcription.completed" THEN s
  ELSE IF ty = "conversation.item.input_audio_transcription.failed" THEN s
  ELSE IF ty = "input_audio_buffer.speech_started" THEN s
  ELSE IF ty = "input_audio_buffer.speech_stopped" THEN s
  ELSE IF ty = "conversation.item.input_audio_transcription.delta" THEN s
  ELSE IF ty = "input_audio_buffer.committed" THEN s
  ELSE IF ty = "conversation.item.input_audio_transcription.started" THEN s
  ELSE IF ty = "conversation.item.input_audio_transcription.done" THEN s
  ELSE IF ty = "conversation.item.input_audio_transcription.created" THEN s
  ELSE IF ty = "conversation.item.input_audio_transcription.updated" THEN s
  ELSE IF ty = "response.audio_transcript.delta" THEN s
  ELSE IF ty = "response.audio_transcript.done" THEN
    IF ev.transcript # NoText
      THEN LET a == addTranscriptionMessage(s, "Efa", ev.transcript, FALSE, Undefined) IN
           IF ~a.hasReceivedWelcomeRef
             THEN updateConnectionStatus(
                    [a EXCEPT !.hasReceivedWelcomeRef = TRUE], "connected")
             ELSE a
      ELSE s
  ELSE IF ty = "input_audio_buffer.committed" THEN s
  ELSE IF ty = "conversation.item.input_audio_transcription.created" THEN s
  ELSE IF ty = "conversation.item.input_audio_transcription.updated" THEN
    IF ev.transcript # NoText
      THEN addTranscriptionMessage(s, "You", ev.transcript, FALSE, Undefined)
      ELSE s
  ELSE IF ty = "response.done" THEN
    IF ev.text # NoText
      THEN addTranscriptionMessage(s, "Efa", ev.text, FALSE, Undefined)
      ELSE s
  ELSE s

\* hooks/useWebRTCVoice.ts
OnMessageTransport(s, ev) ==
  LET ty == ev.type IN
  IF ty = "conversation.item.input_audio_transcription.completed" THEN
    IF ev.transcript # NoText
      THEN addTranscriptionMessage(s, "You", ev.transcript, FALSE, Undefined)
      ELSE s
  ELSE IF ty = "conversation.item.input_audio_transcription.failed" THEN s
  ELSE IF ty = "input_audio_buffer.speech_started" THEN s
  ELSE IF ty = "input_audio_buffer.speech_stopped" THEN s
  ELSE IF ty = "response.audio_transcript.delta" THEN s
  ELSE IF ty = "response.audio_transcript.done" THEN
    IF ev.transcript # NoText
      THEN addTranscriptionMessage(s, "Efa", ev.transcript, FALSE, Undefined)
      ELSE s
  ELSE IF ty = "response.done" THEN
    IF ev.text # NoText
      THEN addTranscriptionMessage(s, "Efa", ev.text, FALSE, Undefined)
      ELSE s
  ELSE s

\* JSON.parse throws on these
Unparseable == {"malformed", "binary"}

\* the catch block of onmessage evaluates event.data.substring(0, 200), which
\* is not a function when event.data is not a string: the handler throws
onmessageThrows(ev) == ev.type = "binary"

\* onmessage without its call of resetActivityTimer
onmessageNoReset(r, s, ev, t) ==
  IF ev.type \in Unparseable THEN s
  ELSE IF r = "welcome" THEN OnMessageWelcome(s, ev)
  ELSE OnMessageTransport(s, ev)

\* resetActivityTimer runs before JSON.parse; a parse failure is caught
onmessage(r, s, ev, t) ==
  LET a == resetActivityTimer(s, t) IN
  IF ev.type \in Unparseable THEN a
  ELSE IF r = "welcome" THEN OnMessageWelcome(a, ev)
  ELSE OnMessageTransport(a, ev)

\* pc.onconnectionstatechange, connectionState === "connected"
OnConnectedWelcome(s, i) ==
  [s EXCEPT !.isSessionActive = TRUE, !.sessionId = i]

NewIntervalId(s) ==
  CHOOSE n \in 1..(Cardinality(s.intervals) + 2) :
    n \notin s.intervals /\ n # s.latencyCheckIntervalRef

OnConnectedTransport(s, i) ==
  LET a == addTranscriptionMessage(
             [updateConnectionStatus(s, "connected")
                EXCEPT !.isSessionActive = TRUE, !.sessionId = i],
             "Efa", "greeting", FALSE, Undefined)
      id == NewIntervalId(a)
  IN [a EXCEPT !.intervals = @ \cup {id}, !.latencyCheckIntervalRef = id]

onconnectionstatechange(r, s, i, state) ==
  IF state = "connected"
    THEN IF r = "welcome" THEN OnConnectedWelcome(s, i)
         ELSE OnConnectedTransport(s, i)
  ELSE IF state = "failed" THEN updateConnectionStatus(s, "error")
  ELSE s

\* dataChannel.onopen
onopen(s, t) ==
  resetActivityTimer([s EXCEPT !.sessionStartTimeRef = t], t)

\* pc.ontrack
ontrack(s, i, t) ==
  LET a == resetActivityTimer(s, t) IN
  IF a.audioElementRef THEN [a EXCEPT !.srcObject = i] ELSE a



\* the callback armed by resetActivityTimer: it reports the expiry as the
\* hard limit or as idle, then calls stopSessionRef.current()
expiryReport(s, t) ==
  IF t - s.sessionStartTimeRef >= HardLimitMinutes THEN "hard" ELSE "idle"

idleCallback(s) == stopSession(s)

\* ------------------------------------------------------------------ state
InitAudit == [tornDown |-> FALSE, openedFor |-> 0, report |-> "none", threw |-> FALSE]

InitHook ==
  [ connectionStatus |-> "idle",
    isSessionActive |-> FALSE,
    sessionId |-> NULL,
    transcription |-> << >>,
    peerConnectionRef |-> NULL,
    localStreamRef |-> NULL,
    audioElementRef |-> TRUE,      \* ChatPage calls setAudioElement in its mount effect
    srcObject |-> NULL,
    hasReceivedWelcomeRef |-> FALSE,
    lastActivityTimeRef |-> Epoch,
    sessionStartTimeRef |-> 0,
    idleTimeoutRef |-> NULL,
    latencyCheckIntervalRef |-> NULL,
    timers |-> {},                 \* pending setTimeout callbacks
    intervals |-> {},              \* active setInterval callbacks
    nStarts |-> 0,
    pos |-> [i \in Starts |-> "none"],       \* where each startSession call is suspended
    streams |-> [i \in Starts |-> "none"],   \* the MediaStream each call obtained
    pcs |-> [i \in Starts |-> "none"],       \* connectionState of the pc each call created
    dcs |-> [i \in Starts |-> FALSE] ]       \* its data channel is open

HookInit ==
  /\ rev \in Revs
  /\ now = Epoch
  /\ hk = InitHook
  /\ ui = [isInCall |-> FALSE, mounted |-> TRUE]
  /\ lastOp = "init"
  /\ cancelled = {}
  /\ finals = << >>
  /\ audit = InitAudit

\* a client WebSocket has been accepted and setupRealtimeWebSocket is called
RelayInit ==
  /\ apiKey \in BOOLEAN
  /\ setup = "start"
  /\ clientWs = "OPEN"
  /\ openaiWs = "NONE"
  /\ toOpenai = << >>
  /\ toClient = << >>
  /\ received = << >>
  /\ clientCloseSeen = FALSE
  /\ closedAt = "open"

\* no relay pair: the server has accepted no client
ServerIdle(keys) ==
  /\ apiKey \in keys
  /\ setup = "none"
  /\ clientWs = "CLOSED"
  /\ openaiWs = "NONE"
  /\ toOpenai = << >>
  /\ toClient = << >>
  /\ received = << >>
  /\ clientCloseSeen = FALSE
  /\ closedAt = "open"

RelayIdle == ServerIdle({TRUE})

\* the server of a mounted hook: OPENAI_API_KEY may be set or not
SessionServer == ServerIdle(BOOLEAN)

\* the hook is mounted and stays idle
HookIdle ==
  /\ rev = "welcome"
  /\ now = Epoch
  /\ hk = InitHook
  /\ ui = [isInCall |-> FALSE, mounted |-> TRUE]
  /\ lastOp = "init"
  /\ cancelled = {}
  /\ finals = << >>
  /\ audit = InitAudit

InitWhisper ==
  [ enabled |-> TRUE,
    isRecording |-> FALSE,
    isProcessing |-> FALSE,
    mediaRecorderRef |-> NULL,
    audioChunksRef |-> << >>,
    streamRef |-> NULL,
    processingTimeoutRef |-> NULL,
    silenceTimeoutRef |-> NULL,
    recorders |-> << >>,      \* the state of each MediaRecorder created
    stopEvents |-> {},        \* recorders with a stop event queued
    timers |-> {},            \* armed timeouts
    nTimers |-> 0,
    requests |-> {},          \* transcription requests in flight
    nRequests |-> 0 ]

WhisperInit ==
  /\ lw \in {[InitWhisper EXCEPT !.enabled = b] : b \in BOOLEAN}
  /\ teardowns = 0
  /\ delivered = << >>
  /\ clock = 0
  /\ heard = 0

\* the local transcriber is mounted and never used
WhisperIdle ==
  /\ lw = InitWhisper
  /\ teardowns = 0
  /\ delivered = << >>
  /\ clock = 0
  /\ heard = 0

Phones == {"p1"}
Codes == {"111111", "222222"}
NoOtp == [code |-> NoText, expires |-> 0]
NoVerdict == [phone |-> NoText]

\* the server has started: otpStorage is empty
AuthInit ==
  /\ otpStorage = [p \in Phones |-> NoOtp]
  /\ authNow = 0
  /\ verifying = {}
  /\ issuedAt = [p \in Phones |-> 0]
  /\ nOtps = 0
  /\ verdict = NoVerdict
  /\ authenticated = [n \in 1..MaxOtps |-> 0]

Init == HookInit /\ SessionServer /\ WhisperIdle /\ AuthInit

Suspended == {"credential", "microphone", "offer", "sdp"}
InFlight(s) == {i \in Starts : s.pos[i] \in Suspended}
LivePc == {"new", "connected"}

\* nothing was reported and nothing thrown by the handler that just ran
Quiet(a) == [a EXCEPT !.report = "none", !.threw = FALSE]

\* handler op, which does not call stopSession, receives the final
\* assistant texts f and leaves the hook in state s
Handler(op, s, f, a) ==
  /\ ui.mounted
  /\ Len(s.transcription) <= MaxLedger
  /\ Cardinality(s.intervals) <= MaxIntervals
  /\ hk' = s
  /\ lastOp' = op
  /\ finals' = finals \o f
  /\ audit' = a
  /\ UNCHANGED <<rev, now, cancelled, relayVars, authVars, whisperVars>>

StepWith(s, f) == Handler("quiet", s, f, Quiet(audit))

\* a handler that does not call stopSession
Step(s) == StepWith(s, << >>)

\* the final assistant text a message carries: the transcript of
\* response.audio_transcript.done, the text item of response.done
FinalText(ev) ==
  IF ev.type = "response.audio_transcript.done" /\ ev.transcript # NoText
    THEN <<ev.transcript>>
  ELSE IF ev.type = "response.done" /\ ev.text # NoText
    THEN <<ev.text>>
  ELSE << >>

\* a handler that reports rep and ends by calling stopSession on state s
StopStepWith(op, s, rep) ==
  /\ ui.mounted
  /\ hk' = stopSession(s)
  /\ lastOp' = op
  /\ cancelled' = cancelled \cup InFlight(s)
  /\ finals' = << >>
  /\ audit' = [audit EXCEPT !.tornDown = TRUE, !.report = rep, !.threw = FALSE]
  /\ UNCHANGED <<rev, now, relayVars, authVars, whisperVars>>

StopStep(op, s) == StopStepWith(op, s, "none")

\* ---------------------------------------------------------------- actions
\* ChatPage.handleCallClick: start when idle or error, otherwise end the call
handleCallClick(maxStarts) ==
  \/ /\ hk.connectionStatus \in {"idle", "error"}
     /\ hk.nStarts < maxStarts
     /\ LET i == hk.nStarts + 1 IN
          Handler("quiet",
                  updateConnectionStatus(
                    [hk EXCEPT !.nStarts = i, !.pos[i] = "credential"], "connecting"),
                  << >>, [Quiet(audit) EXCEPT !.tornDown = FALSE])
     /\ ui' = [ui EXCEPT !.isInCall = TRUE]
  \/ /\ hk.connectionStatus \notin {"idle", "error"}
     /\ StopStep("stopSession", hk)
     /\ ui' = [ui EXCEPT !.isInCall = FALSE]

HandleCallClick == handleCallClick(MaxStarts)

\* fetch("/api/session") resolves with ok: the server has its API key
CredentialOk(i) ==
  /\ hk.pos[i] = "credential"
  /\ apiKey
  /\ Step([hk EXCEPT !.pos[i] = "microphone"])
  /\ UNCHANGED ui

CredentialFail(i) ==
  /\ hk.pos[i] = "credential"
  /\ StopStep("stopSession", catchError(hk, i))
  /\ UNCHANGED ui

\* getUserMedia resolves; the call runs on to await pc.createOffer()
MicGranted(i) ==
  /\ hk.pos[i] = "microphone"
  /\ Step([hk EXCEPT !.streams[i] = "live", !.localStreamRef = i,
                     !.pcs[i] = "new", !.peerConnectionRef = i,
                     !.pos[i] = "offer"])
  /\ UNCHANGED ui

MicDenied(i) ==
  /\ hk.pos[i] = "microphone"
  /\ StopStep("micDenied", catchError(hk, i))
  /\ UNCHANGED ui

\* createOffer and setLocalDescription resolve (they reject on a closed pc)
OfferOk(i) ==
  /\ hk.pos[i] = "offer"
  /\ hk.pcs[i] # "closed"
  /\ Step([hk EXCEPT !.pos[i] = "sdp"])
  /\ UNCHANGED ui

OfferFail(i) ==
  /\ hk.pos[i] = "offer"
  /\ StopStep("stopSession", catchError(hk, i))
  /\ UNCHANGED ui

\* the SDP exchange and setRemoteDescription resolve (the latter rejects on a
\* closed pc); applying the answer announces the remote audio track, and
\* pc.ontrack runs before the awaiting call resumes
SdpOk(i) ==
  /\ hk.pos[i] = "sdp"
  /\ hk.pcs[i] # "closed"
  /\ Handler("ontrack", [ontrack(hk, i, now) EXCEPT !.pos[i] = "done"],
             << >>, Quiet(audit))
  /\ UNCHANGED ui

SdpFail(i) ==
  /\ hk.pos[i] = "sdp"
  /\ StopStep("stopSession", catchError(hk, i))
  /\ UNCHANGED ui

\* the transport reports connected
PcConnected(i) ==
  /\ hk.pos[i] = "done"
  /\ hk.pcs[i] = "new"
  /\ Step(onconnectionstatechange(rev, [hk EXCEPT !.pcs[i] = "connected"], i, "connected"))
  /\ UNCHANGED ui

\* the transport drops to disconnected (the handler ignores that state) and
\* reports connected again
PcReconnected(i) ==
  /\ hk.pcs[i] = "connected"
  /\ Step(onconnectionstatechange(
            rev, onconnectionstatechange(rev, hk, i, "disconnected"), i, "connected"))
  /\ UNCHANGED ui

PcFailed(i) ==
  /\ hk.pos[i] = "done"
  /\ hk.pcs[i] \in LivePc
  /\ Handler("pcFailed",
             onconnectionstatechange(
               rev, [hk EXCEPT !.pcs[i] = "failed", !.dcs[i] = FALSE], i, "failed"),
             << >>, Quiet(audit))
  /\ UNCHANGED ui

DcOpen(i) ==
  /\ hk.pcs[i] = "connected"
  /\ ~hk.dcs[i]
  /\ Handler("quiet", onopen([hk EXCEPT !.dcs[i] = TRUE], now), << >>,
             [Quiet(audit) EXCEPT !.openedFor = i])
  /\ UNCHANGED ui

DcMessage(i, ev) ==
  /\ hk.dcs[i]
  /\ Handler(ev.type, onmessage(rev, hk, ev, now), FinalText(ev),
             [Quiet(audit) EXCEPT !.threw = onmessageThrows(ev)])
  /\ UNCHANGED ui

\* the page unloads or the component unmounts (ChatPage's back buttons
\* navigate away without stopping the call); nothing of the hook runs after
LeaveStep(op, s) ==
  /\ ui.mounted
  /\ hk' = s
  /\ ui' = [ui EXCEPT !.mounted = FALSE]
  /\ lastOp' = op
  /\ UNCHANGED <<rev, now, cancelled, finals, audit, relayVars, authVars, whisperVars>>

BeforeUnload == LeaveStep("unload", handleBeforeUnload(hk))

Unmount == LeaveStep("unmount", unmountCleanup(hk))

\* The pending idle timeout fires and its callback runs.  Spec does not track
\* how long the timeout has been pending; SpecTimed does.
IdleTimeout ==
  \E t \in hk.timers :
    /\ StopStepWith("idleExpiry", [hk EXCEPT !.timers = @ \ {t}],
                     expiryReport(hk, now))
    /\ UNCHANGED ui

Next ==
  \/ HandleCallClick
  \/ \E i \in Starts : CredentialOk(i)
  \/ \E i \in Starts : CredentialFail(i)
  \/ \E i \in Starts : MicGranted(i)
  \/ \E i \in Starts : MicDenied(i)
  \/ \E i \in Starts : OfferOk(i)
  \/ \E i \in Starts : OfferFail(i)
  \/ \E i \in Starts : SdpOk(i)
  \/ \E i \in Starts : SdpFail(i)
  \/ \E i \in Starts : PcConnected(i)
  \/ \E i \in Starts : PcReconnected(i)
  \/ \E i \in Starts : PcFailed(i)
  \/ \E i \in Starts : DcOpen(i)
  \/ \E i \in Starts, ev \in Events : DcMessage(i, ev)
  \/ IdleTimeout
  \/ BeforeUnload
  \/ Unmount

Spec == Init /\ [][Next]_vars

\* ------------------------------------------------------- with the clock
TimedCallClick == handleCallClick(MaxTimedStarts)

TimedEvents ==
  { ev \in Events : ev.type \in {"response.audio_transcript.done",
                                 "input_audio_buffer.speech_started",
                                 "malformed"} }

\* the handlers that append to the ledger, while it is short
WithinTimedLedger == Len(hk'.transcription) <= MaxTimedLedger

TimedConnected(i) == PcConnected(i) /\ WithinTimedLedger

TimedReconnected(i) == PcReconnected(i) /\ WithinTimedLedger

TimedMessage(i, ev) == DcMessage(i, ev) /\ WithinTimedLedger

\* a pending idle timeout comes due and its callback runs
IdleExpiry ==
  \E t \in hk.timers :
    /\ t.due <= now
    /\ StopStepWith("idleExpiry", [hk EXCEPT !.timers = @ \ {t}],
                     expiryReport(hk, now))
    /\ UNCHANGED ui

\* a minute passes; a timeout that is due fires before the clock moves on
TickWithin(horizon) ==
  /\ now < Epoch + horizon
  /\ \A t \in hk.timers : t.due > now
  /\ now' = now + 1
  /\ lastOp' = "quiet"
  /\ audit' = Quiet(audit)
  /\ UNCHANGED <<rev, hk, ui, cancelled, finals, relayVars, authVars, whisperVars>>

Tick == TickWithin(Horizon)

LongTick == TickWithin(LongHorizon)

NextTimed ==
  \/ TimedCallClick
  \/ \E i \in Starts : CredentialOk(i)
  \/ \E i \in Starts : CredentialFail(i)
  \/ \E i \in Starts : MicGranted(i)
  \/ \E i \in Starts : MicDenied(i)
  \/ \E i \in Starts : OfferOk(i)
  \/ \E i \in Starts : OfferFail(i)
  \/ \E i \in Starts : SdpOk(i)
  \/ \E i \in Starts : SdpFail(i)
  \/ \E i \in Starts : TimedConnected(i)
  \/ \E i \in Starts : TimedReconnected(i)
  \/ \E i \in Starts : PcFailed(i)
  \/ \E i \in Starts : DcOpen(i)
  \/ \E i \in Starts, ev \in TimedEvents : TimedMessage(i, ev)
  \/ IdleExpiry
  \/ Tick

SpecTimed == Init /\ [][NextTimed]_vars

NextTimedLong ==
  \/ TimedCallClick
  \/ \E i \in Starts : CredentialOk(i)
  \/ \E i \in Starts : CredentialFail(i)
  \/ \E i \in Starts : MicGranted(i)
  \/ \E i \in Starts : MicDenied(i)
  \/ \E i \in Starts : OfferOk(i)
  \/ \E i \in Starts : OfferFail(i)
  \/ \E i \in Starts : SdpOk(i)
  \/ \E i \in Starts : SdpFail(i)
  \/ \E i \in Starts : TimedConnected(i)
  \/ \E i \in Starts : TimedReconnected(i)
  \/ \E i \in Starts : PcFailed(i)
  \/ \E i \in Starts : DcOpen(i)
  \/ \E i \in Starts, ev \in TimedEvents : TimedMessage(i, ev)
  \/ IdleExpiry
  \/ LongTick

SpecTimedLong == Init /\ [][NextTimedLong]_vars

\* ------------------------------------------------------------ one call's ledger
\* the events that carry a final text, and one that carries none
LedgerEvents ==
  { ev \in Events : ev.type \in {"response.audio_transcript.done", "response.done",
                                 "response.audio_transcript.delta"} }

NextLedger ==
  \/ TimedCallClick
  \/ \E i \in Starts : CredentialOk(i)
  \/ \E i \in Starts : CredentialFail(i)
  \/ \E i \in Starts : MicGranted(i)
  \/ \E i \in Starts : MicDenied(i)
  \/ \E i \in Starts : OfferOk(i)
  \/ \E i \in Starts : OfferFail(i)
  \/ \E i \in Starts : SdpOk(i)
  \/ \E i \in Starts : SdpFail(i)
  \/ \E i \in Starts : PcConnected(i)
  \/ \E i \in Starts : PcReconnected(i)
  \/ \E i \in Starts : PcFailed(i)
  \/ \E i \in Starts : DcOpen(i)
  \/ \E i \in Starts, ev \in LedgerEvents : DcMessage(i, ev)
  \/ IdleTimeout

SpecLedger == Init /\ [][NextLedger]_vars


\* ------------------------------------------------------------ relay bridge
\* the session.update frame the relay itself sends upstream, and the error
\* frame it sends to the client
ConfigFrame == [src |-> "relay", n |-> 0, kind |-> "text", body |-> "config"]
ErrorFrame == [src |-> "relay", n |-> 0, kind |-> "text", body |-> "error"]

\* a WebSocket frame is a text frame (valid UTF-8) or a binary frame
FrameKinds == {"text", "binary"}

\* data.toString(), sent as a string: a text frame; the bytes of a binary
\* frame are decoded as UTF-8, which replaces what is not valid UTF-8
toString(frame) ==
  [frame EXCEPT !.kind = "text",
                !.body = IF frame.kind = "binary" THEN "garbled" ELSE @]

\* ws.send without the readyState test
forwardAlways(readyState, sent, frame) == Append(sent, frame)

\* ws.send behind the handlers' readyState === WebSocket.OPEN test
forward(readyState, sent, frame) ==
  IF readyState = "OPEN" THEN Append(sent, frame) ELSE sent

\* ws.close() behind the handlers' readyState === WebSocket.OPEN test
closeIfOpen(readyState) ==
  IF readyState = "OPEN" THEN "CLOSING" ELSE readyState

\* an open handler that sends nothing
openaiOnOpenSilent(sent) == sent

\* openaiWs.on("open")
openaiOnOpen(sent) == Append(sent, ConfigFrame)

\* a close handler that leaves the client alone
openaiOnCloseKeepsClient(client) == client

\* openaiWs.on("close")
openaiOnClose(client) == closeIfOpen(client)

\* clientWs.on("close") and clientWs.on("error")
clientOnClose(upstream) == closeIfOpen(upstream)

\* the n-th frame to arrive, from sender src
Frame(src, kind) ==
  [src |-> src, n |-> Len(received) + 1, kind |-> kind, body |-> "data"]

RelayStep == UNCHANGED <<hookVars, whisperVars, authVars, apiKey>>

\* setupRealtimeWebSocket up to its first suspension: without an API key the
\* client is closed with 1008; with an ainagerId the persona lookup is
\* awaited; otherwise the upstream socket is created and all handlers attached
SetupStart(hasAinagerId) ==
  /\ setup = "start"
  /\ IF ~apiKey
       THEN /\ setup' = "refused"
            /\ clientWs' = closeIfOpen(clientWs)
            /\ UNCHANGED openaiWs
       ELSE IF hasAinagerId
         THEN /\ setup' = "lookup"
              /\ UNCHANGED <<clientWs, openaiWs>>
         ELSE /\ setup' = "attached"
              /\ openaiWs' = "CONNECTING"
              /\ UNCHANGED clientWs
  /\ UNCHANGED <<toOpenai, toClient, received, clientCloseSeen, closedAt>>
  /\ RelayStep

\* storage.getAinagerById resolves: the upstream socket is created and all
\* handlers are attached
LookupDone ==
  /\ setup = "lookup"
  /\ setup' = "attached"
  /\ openaiWs' = "CONNECTING"
  /\ UNCHANGED <<clientWs, toOpenai, toClient, received, clientCloseSeen, closedAt>>
  /\ RelayStep

\* storage.getAinagerById rejects: setupRealtimeWebSocket ends there
LookupFail ==
  /\ setup = "lookup"
  /\ setup' = "failed"
  /\ UNCHANGED <<clientWs, openaiWs, toOpenai, toClient, received, clientCloseSeen, closedAt>>
  /\ RelayStep

UpstreamOpen ==
  /\ openaiWs = "CONNECTING"
  /\ openaiWs' = "OPEN"
  /\ toOpenai' = openaiOnOpen(toOpenai)
  /\ UNCHANGED <<setup, clientWs, toClient, received, clientCloseSeen, closedAt>>
  /\ RelayStep

\* the upstream socket fails (handshake or transport): ws moves it to CLOSING
\* and emits error; close follows
UpstreamError ==
  /\ openaiWs \in {"CONNECTING", "OPEN"}
  /\ openaiWs' = "CLOSING"
  /\ toClient' = forward(clientWs, toClient, ErrorFrame)
  /\ UNCHANGED <<setup, clientWs, toOpenai, received, clientCloseSeen, closedAt>>
  /\ RelayStep

\* the upstream socket closes (the service closed it, or a close the relay
\* started completes)
UpstreamClose ==
  /\ openaiWs \in {"OPEN", "CLOSING"}
  /\ openaiWs' = "CLOSED"
  /\ clientWs' = openaiOnClose(clientWs)
  /\ UNCHANGED <<setup, toOpenai, toClient, received, clientCloseSeen, closedAt>>
  /\ RelayStep

\* a frame arrives from the service
UpstreamMessage(kind) ==
  /\ openaiWs \in {"OPEN", "CLOSING"}
  /\ Len(received) < MaxFrames
  /\ toClient' = forward(clientWs, toClient, toString(Frame("openai", kind)))
  /\ received' = Append(received, [src |-> "openai", open |-> clientWs = "OPEN",
                                   kind |-> kind])
  /\ UNCHANGED <<setup, clientWs, openaiWs, toOpenai, clientCloseSeen, closedAt>>
  /\ RelayStep

\* a frame arrives from the client once the handlers are attached
ClientMessage(kind) ==
  /\ setup = "attached"
  /\ clientWs \in {"OPEN", "CLOSING"}
  /\ Len(received) < MaxFrames
  /\ toOpenai' = forward(openaiWs, toOpenai, toString(Frame("client", kind)))
  /\ received' = Append(received, [src |-> "client", open |-> openaiWs = "OPEN",
                                   kind |-> kind])
  /\ UNCHANGED <<setup, clientWs, openaiWs, toClient, clientCloseSeen, closedAt>>
  /\ RelayStep

\* the client socket closes; its close handler runs if it is attached yet
ClientClose ==
  /\ clientWs \in {"OPEN", "CLOSING"}
  /\ clientWs' = "CLOSED"
  /\ closedAt' = setup
  /\ IF setup = "attached"
       THEN /\ openaiWs' = clientOnClose(openaiWs)
            /\ clientCloseSeen' = TRUE
       ELSE UNCHANGED <<openaiWs, clientCloseSeen>>
  /\ UNCHANGED <<setup, toOpenai, toClient, received>>
  /\ RelayStep

\* the client socket fails: ws moves it to CLOSING and emits error
ClientError ==
  /\ clientWs = "OPEN"
  /\ clientWs' = "CLOSING"
  /\ IF setup = "attached"
       THEN openaiWs' = clientOnClose(openaiWs)
       ELSE UNCHANGED openaiWs
  /\ UNCHANGED <<setup, toOpenai, toClient, received, clientCloseSeen, closedAt>>
  /\ RelayStep

NextRelay ==
  \/ \E hasAinagerId \in BOOLEAN : SetupStart(hasAinagerId)
  \/ LookupDone
  \/ LookupFail
  \/ UpstreamOpen
  \/ UpstreamError
  \/ UpstreamClose
  \/ \E kind \in FrameKinds : UpstreamMessage(kind)
  \/ \E kind \in FrameKinds : ClientMessage(kind)
  \/ ClientClose
  \/ ClientError

InitRelayPair == HookIdle /\ RelayInit /\ WhisperIdle /\ AuthInit

SpecRelay == InitRelayPair /\ [][NextRelay]_vars


\* ------------------------------------------------------------ local capture
\* the sizes in bytes a dataavailable event may carry
ChunkSizes == {0, 4800, 19200, 32000}

RECURSIVE BlobSize(_)
BlobSize(chunks) ==
  IF chunks = << >> THEN 0 ELSE Head(chunks) + BlobSize(Tail(chunks))

\* an onstop test that lets every buffer through
LongEnoughAlways(size) == TRUE

\* onstop's test estimatedDuration >= MIN_AUDIO_LENGTH, with
\* estimatedDuration = (size / 128000) * 1000
LongEnough(size) == size * 1000 >= MIN_AUDIO_LENGTH * AudioBitsPerSecond

\* mediaRecorder.stop() behind the test that the recorder held in
\* mediaRecorderRef is recording, followed by setIsRecording(false)
stopIfRecording(w) ==
  IF w.mediaRecorderRef # NULL /\ w.recorders[w.mediaRecorderRef] = "recording"
    THEN [w EXCEPT !.recorders[w.mediaRecorderRef] = "inactive",
                   !.stopEvents = @ \cup {w.mediaRecorderRef},
                   !.isRecording = FALSE]
    ELSE w

clearLocalTimeout(timers, id) == {x \in timers : x.id # id}

stopRecording(w) ==
  LET a == stopIfRecording(w) IN
  [a EXCEPT !.timers = clearLocalTimeout(clearLocalTimeout(@, a.processingTimeoutRef),
                                         a.silenceTimeoutRef),
            !.processingTimeoutRef = NULL,
            !.silenceTimeoutRef = NULL]

cleanup(w) ==
  [stopRecording(w) EXCEPT !.streamRef = NULL,
                           !.mediaRecorderRef = NULL,
                           !.audioChunksRef = << >>,
                           !.isRecording = FALSE,
                           !.isProcessing = FALSE]

\* processAudioWithWhisper up to its fetch
processAudioWithWhisper(w, gen) ==
  IF ~w.enabled THEN w
  ELSE [w EXCEPT !.isProcessing = TRUE,
                 !.nRequests = @ + 1,
                 !.requests = @ \cup {[id |-> w.nRequests + 1, gen |-> gen]}]

\* mediaRecorder.onstop
onstop(w, gen) ==
  IF w.audioChunksRef # << >> /\ BlobSize(w.audioChunksRef) > 0
       /\ LongEnough(BlobSize(w.audioChunksRef))
    THEN processAudioWithWhisper(w, gen)
    ELSE w

WhisperStep == UNCHANGED <<hookVars, relayVars, authVars, clock>>

\* the delay of a setTimeout, in seconds
Seconds(ms) == ms \div 1000

StartRecording ==
  /\ IF ~lw.enabled \/ lw.isRecording
       THEN UNCHANGED lw
       ELSE /\ Len(lw.recorders) < MaxRecordings
            /\ LET r == Len(lw.recorders) + 1
                   s == lw.nTimers + 1
                   m == lw.nTimers + 2
               IN lw' = [lw EXCEPT !.streamRef = r,
                                   !.audioChunksRef = << >>,
                                   !.recorders = Append(@, "recording"),
                                   !.mediaRecorderRef = r,
                                   !.isRecording = TRUE,
                                   !.timers = clearLocalTimeout(@, lw.silenceTimeoutRef)
                                                \cup {[id |-> s, kind |-> "silence",
                                                       due |-> clock + Seconds(SILENCE_THRESHOLD)],
                                                      [id |-> m, kind |-> "max",
                                                       due |-> clock + Seconds(MAX_AUDIO_LENGTH)]},
                                   !.silenceTimeoutRef = s,
                                   !.processingTimeoutRef = m,
                                   !.nTimers = m]
  /\ UNCHANGED <<teardowns, delivered, heard>>
  /\ WhisperStep

\* mediaRecorder.ondataavailable, while recording or with the last data of a
\* stopped recorder
DataAvailable(r, size) ==
  /\ lw.recorders[r] = "recording" \/ r \in lw.stopEvents
  /\ Len(lw.audioChunksRef) < MaxChunks
  /\ lw' = IF size > 0 THEN [lw EXCEPT !.audioChunksRef = Append(@, size)] ELSE lw
  /\ heard' = IF size > 0 THEN clock ELSE heard
  /\ UNCHANGED <<teardowns, delivered>>
  /\ WhisperStep

\* the silence timeout or the maximum-recording timeout fires
LocalTimeout(t) ==
  /\ t \in lw.timers
  /\ lw' = stopIfRecording([lw EXCEPT !.timers = @ \ {t}])
  /\ UNCHANGED <<teardowns, delivered, heard>>
  /\ WhisperStep

\* the stop event of recorder r is dispatched
RecorderStopped(r) ==
  /\ r \in lw.stopEvents
  /\ lw.nRequests < MaxRequests
  /\ lw' = onstop([lw EXCEPT !.stopEvents = @ \ {r}], teardowns)
  /\ UNCHANGED <<teardowns, delivered, heard>>
  /\ WhisperStep

\* result.segments[0].avg_logprob of a response: absent, negative or 0
LogProbs == {"absent", "negative", "zero"}

\* the confidence processAudioWithWhisper computes: Math.exp(avg_logprob)
\* when avg_logprob is truthy, undefined otherwise
Confidence(logprob) == IF logprob = "negative" THEN "exp" ELSE Undefined

\* the callback the session hook passes as onTranscriptionUpdate
onTranscriptionUpdate(s, tr) ==
  addTranscriptionMessage(s, "You", tr.text, TRUE, tr.confidence)

\* the transcription request resolves 2xx with the given trimmed text
Transcribed(q, text, logprob) ==
  /\ q \in lw.requests
  /\ lw' = [lw EXCEPT !.requests = @ \ {q}, !.isProcessing = FALSE]
  /\ LET tr == [text |-> text, confidence |-> Confidence(logprob)] IN
       IF text # NoText
         THEN /\ delivered' = Append(delivered, [tr |-> tr, issued |-> q.gen,
                                                 at |-> teardowns])
              /\ hk' = onTranscriptionUpdate(hk, tr)
         ELSE UNCHANGED <<delivered, hk>>
  /\ UNCHANGED <<teardowns, clock, heard, rev, now, ui, lastOp, cancelled, finals, audit, relayVars, authVars>>

\* the transcription request fails or resolves non-2xx
TranscribeFailed(q) ==
  /\ q \in lw.requests
  /\ lw' = [lw EXCEPT !.requests = @ \ {q}, !.isProcessing = FALSE]
  /\ UNCHANGED <<teardowns, delivered, heard>>
  /\ WhisperStep

StopRecording ==
  /\ lw' = stopRecording(lw)
  /\ UNCHANGED <<teardowns, delivered, heard>>
  /\ WhisperStep

\* the session's teardown: the hook's stopSession and the transcriber's
\* cleanup
Cleanup ==
  /\ teardowns < MaxTeardowns
  /\ lw' = cleanup(lw)
  /\ hk' = stopSession(hk)
  /\ teardowns' = teardowns + 1
  /\ UNCHANGED <<delivered, clock, heard, rev, now, ui, lastOp, cancelled, finals, audit, relayVars, authVars>>

NextWhisper ==
  \/ StartRecording
  \/ \E r \in 1..Len(lw.recorders), size \in ChunkSizes : DataAvailable(r, size)
  \/ \E t \in lw.timers : LocalTimeout(t)
  \/ \E r \in lw.stopEvents : RecorderStopped(r)
  \/ \E q \in lw.requests, text \in {NoText, "hi"}, logprob \in LogProbs :
       Transcribed(q, text, logprob)
  \/ \E q \in lw.requests : TranscribeFailed(q)
  \/ StopRecording
  \/ Cleanup

InitLocalCapture == HookIdle /\ RelayIdle /\ WhisperInit /\ AuthInit

SpecWhisper == InitLocalCapture /\ [][NextWhisper]_vars

\* ------------------------------------------------ local capture, with the clock
\* one or two seconds of audio at the configured bit rate arrive
TimedChunkSizes == {AudioBitsPerSecond \div 8, AudioBitsPerSecond \div 4}

\* a pending timeout comes due and its callback runs
LocalTimeoutDue(t) ==
  /\ t.due <= clock
  /\ LocalTimeout(t)

\* a second passes; a timeout that is due fires before the clock moves on
ElapseWithin(horizon) ==
  /\ clock < horizon
  /\ \A t \in lw.timers : t.due > clock
  /\ clock' = clock + 1
  /\ UNCHANGED <<lw, teardowns, delivered, heard, hookVars, relayVars, authVars>>

Elapse == ElapseWithin(HorizonSeconds)

NextWhisperTimed ==
  \/ StartRecording
  \/ \E r \in 1..Len(lw.recorders), size \in TimedChunkSizes : DataAvailable(r, size)
  \/ \E t \in lw.timers : LocalTimeoutDue(t)
  \/ \E r \in lw.stopEvents : RecorderStopped(r)
  \/ \E q \in lw.requests, text \in {NoText, "hi"}, logprob \in LogProbs :
       Transcribed(q, text, logprob)
  \/ \E q \in lw.requests : TranscribeFailed(q)
  \/ StopRecording
  \/ Cleanup
  \/ Elapse

SpecWhisperTimed == InitLocalCapture /\ [][NextWhisperTimed]_vars

\* what the browser and the network do on their own: a due timeout fires, a
\* queued stop event is dispatched, a request in flight settles, time passes.
\* startRecording, stopRecording and cleanup are calls of the transcriber's
\* user and happen only when that user makes them.
TranscriberRuns ==
  \/ \E t \in lw.timers : LocalTimeoutDue(t)
  \/ \E r \in lw.stopEvents : RecorderStopped(r)
  \/ \E q \in lw.requests, text \in {NoText, "hi"}, logprob \in LogProbs :
       Transcribed(q, text, logprob)
  \/ \E q \in lw.requests : TranscribeFailed(q)
  \/ Elapse

SpecWhisperFair == SpecWhisperTimed /\ WF_vars(TranscriberRuns)

\* local capture followed for as long as a maximum-recording timeout
LongElapse == ElapseWithin(LongHorizonSeconds)

NextWhisperTimedLong ==
  \/ StartRecording
  \/ \E r \in 1..Len(lw.recorders) : DataAvailable(r, AudioBitsPerSecond \div 4)
  \/ \E t \in lw.timers : LocalTimeoutDue(t)
  \/ \E r \in lw.stopEvents : RecorderStopped(r)
  \/ \E q \in lw.requests : Transcribed(q, "hi", "negative")
  \/ \E q \in lw.requests : TranscribeFailed(q)
  \/ StopRecording
  \/ Cleanup
  \/ LongElapse

SpecWhisperTimedLong == InitLocalCapture /\ [][NextWhisperTimedLong]_vars


\* ------------------------------------------------------------ AuthService OTP
\* verifyOTP's test Date.now() > storedOTP.expires, switched off
expiredNever(stored, t) == FALSE

\* verifyOTP's test Date.now() > storedOTP.expires
expired(stored, t) == t > stored.expires

AuthStep == UNCHANGED <<hookVars, relayVars, whisperVars>>

\* sendOTP up to its return or its await of Twilio: the OTP is stored with
\* its expiry; what Twilio answers later changes only the reply
SendOTP(phone, otp) ==
  /\ nOtps < MaxOtps
  /\ otpStorage' = [otpStorage EXCEPT ![phone] =
                      [code |-> otp, expires |-> authNow + OtpMinutes]]
  /\ issuedAt' = [issuedAt EXCEPT ![phone] = authNow]
  /\ nOtps' = nOtps + 1
  /\ verdict' = NoVerdict
  /\ UNCHANGED <<authNow, verifying, authenticated>>
  /\ AuthStep

\* what a verifyOTP call reports: its arguments, when it was made, whether an
\* OTP was stored, when that OTP had been issued and by which sendOTP call,
\* and its result
Verdict(phone, otp, calledAt, stored, issued, n, success) ==
  [phone |-> phone, otp |-> otp, calledAt |-> calledAt, stored |-> stored,
   issued |-> issued, n |-> n, success |-> success]

\* verifyOTP up to its return or its await of findOrCreateUserByPhone
verifyOTP(phone, otp, maxPending) ==
  LET storedOTP == otpStorage[phone] IN
  /\ IF storedOTP = NoOtp
       THEN /\ verdict' = Verdict(phone, otp, authNow, storedOTP, issuedAt[phone], nOtps, FALSE)
            /\ UNCHANGED <<otpStorage, verifying>>
       ELSE IF expired(storedOTP, authNow)
         THEN /\ otpStorage' = [otpStorage EXCEPT ![phone] = NoOtp]
              /\ verdict' = Verdict(phone, otp, authNow, storedOTP, issuedAt[phone], nOtps, FALSE)
              /\ UNCHANGED verifying
       ELSE IF storedOTP.code # otp
         THEN /\ verdict' = Verdict(phone, otp, authNow, storedOTP, issuedAt[phone], nOtps, FALSE)
              /\ UNCHANGED <<otpStorage, verifying>>
       ELSE /\ Cardinality(verifying) < maxPending
            /\ verifying' = verifying \cup
                 {Verdict(phone, otp, authNow, storedOTP, issuedAt[phone], nOtps, TRUE)}
            /\ verdict' = NoVerdict
            /\ UNCHANGED otpStorage
  /\ UNCHANGED <<authNow, issuedAt, nOtps, authenticated>>
  /\ AuthStep

VerifyOTP(phone, otp) == verifyOTP(phone, otp, MaxPending)

\* findOrCreateUserByPhone resolves: the OTP stored for the phone number is
\* deleted and the call succeeds
VerifyDone(v) ==
  /\ v \in verifying
  /\ verifying' = verifying \ {v}
  /\ otpStorage' = [otpStorage EXCEPT ![v.phone] = NoOtp]
  /\ verdict' = v
  /\ authenticated' = [authenticated EXCEPT ![v.n] = @ + 1]
  /\ UNCHANGED <<authNow, issuedAt, nOtps>>
  /\ AuthStep

\* findOrCreateUserByPhone rejects: the catch block reports failure
VerifyFailed(v) ==
  /\ v \in verifying
  /\ verifying' = verifying \ {v}
  /\ verdict' = [v EXCEPT !.success = FALSE]
  /\ UNCHANGED <<otpStorage, authNow, issuedAt, nOtps, authenticated>>
  /\ AuthStep

\* a minute passes on the server
AuthTick ==
  /\ authNow < AuthHorizon
  /\ authNow' = authNow + 1
  /\ verdict' = NoVerdict
  /\ UNCHANGED <<otpStorage, verifying, issuedAt, nOtps, authenticated>>
  /\ AuthStep

NextAuth ==
  \/ \E phone \in Phones, otp \in Codes : SendOTP(phone, otp)
  \/ \E phone \in Phones, otp \in Codes : VerifyOTP(phone, otp)
  \/ \E v \in verifying : VerifyDone(v)
  \/ \E v \in verifying : VerifyFailed(v)
  \/ AuthTick

InitAuth == HookIdle /\ RelayIdle /\ WhisperIdle /\ AuthInit

SpecAuth == InitAuth /\ [][NextAuth]_vars

\* the OTP service with verifyOTP calls overlapping
ConcurrentVerifyOTP(phone, otp) == verifyOTP(phone, otp, MaxConcurrent)

NextAuthConcurrent ==
  \/ \E phone \in Phones, otp \in Codes : SendOTP(phone, otp)
  \/ \E phone \in Phones, otp \in Codes : ConcurrentVerifyOTP(phone, otp)
  \/ \E v \in verifying : VerifyDone(v)
  \/ \E v \in verifying : VerifyFailed(v)
  \/ AuthTick

SpecAuthConcurrent == InitAuth /\ [][NextAuthConcurrent]_vars

\* ------------------------------------------------------------ properties
StopOps == {"stopSession", "idleExpiry", "micDenied"}

\* startSession invocations that hold a live microphone stream or a live
\* peer connection
Holding(s) == {i \in Starts : s.streams[i] = "live" \/ s.pcs[i] \in LivePc}

\* C1: the remote service's user-transcription events never append to the
\* transcript: every caller ("You") entry comes from local capture.
C1_NoRemoteCallerEntry ==
  \A k \in 1..Len(hk.transcription) :
    hk.transcription[k].speaker = "You" => hk.transcription[k].isLocal

\* C2: whenever stopSession has just run, no timer is armed, the peer
\* connection and the microphone stream are dropped, the audio sink is
\* detached, the ledger is empty, the session id is null, isSessionActive is
\* false and the status is idle.
C2_StopLeavesNothing ==
  lastOp \in StopOps =>
    /\ hk.timers = {} /\ hk.idleTimeoutRef = NULL
    /\ hk.intervals = {} /\ hk.latencyCheckIntervalRef = NULL
    /\ hk.peerConnectionRef = NULL /\ hk.localStreamRef = NULL
    /\ hk.srcObject = NULL
    /\ hk.transcription = << >>
    /\ hk.sessionId = NULL /\ ~hk.isSessionActive
    /\ hk.connectionStatus = "idle"

C4_AtMostOneSession == Cardinality(Holding(hk)) <= 1

\* C9: a startSession that was suspended when stopSession ran is cancelled:
\* it holds no microphone stream and no peer connection afterwards.
C9_StopCancelsStart == cancelled \cap Holding(hk) = {}

\* the frames of sender src among those passed to send, as arrival numbers
Forwarded(sent, src) ==
  LET f == SelectSeq(sent, LAMBDA x : x.src = src) IN
  [k \in 1..Len(f) |-> f[k].n]

\* the arrival numbers of the frames of sender src that found the other leg open
ArrivedOpen(src) ==
  LET RECURSIVE Pick(_)
      Pick(n) ==
        IF n = 0 THEN << >>
        ELSE IF received[n].src = src /\ received[n].open
          THEN Append(Pick(n - 1), n)
          ELSE Pick(n - 1)
  IN Pick(Len(received))

\* C5: once the upstream socket exists, no upstream connection is open after
\* its client has closed.
C5_ClientCloseClosesUpstream == clientCloseSeen => openaiWs # "OPEN"

\* C6: no client connection is open after its upstream has closed.
C6_UpstreamCloseClosesClient == openaiWs = "CLOSED" => clientWs # "OPEN"

C6_Witness == openaiWs = "CLOSED" /\ clientWs = "CLOSING" /\ toClient # << >>

\* C7: in each direction the frames forwarded are exactly the frames that
\* found the peer open when they arrived, each once and in arrival order; a
\* frame that found the peer not open is never forwarded.
C7_ForwardOnlyToOpenPeer ==
  /\ Forwarded(toClient, "openai") = ArrivedOpen("openai")
  /\ Forwarded(toOpenai, "client") = ArrivedOpen("client")

C7_Witness ==
  /\ Len(received) = MaxFrames
  /\ \E n \in 1..Len(received) : received[n].open
  /\ \E n \in 1..Len(received) : ~received[n].open
  /\ clientWs = "CLOSED"

\* C8: the upstream connection is sent exactly one configuration frame once
\* it is open, none before, and the configuration frame precedes every
\* forwarded client frame.
C8_ConfigFirstAndOnce ==
  /\ Len(SelectSeq(toOpenai, LAMBDA x : x = ConfigFrame)) <= 1
  /\ openaiWs = "OPEN" => toOpenai # << >>
  /\ toOpenai # << >> => Head(toOpenai) = ConfigFrame

C8_Witness ==
  /\ Len(toOpenai) >= 2
  /\ \E n \in 1..Len(received) : received[n].src = "client" /\ ~received[n].open

\* C10: every result delivered to the transcription callback comes from a
\* request issued since the last teardown.
C10_LateResultDiscarded ==
  \A k \in 1..Len(delivered) : delivered[k].issued = delivered[k].at

\* C11: when getUserMedia is denied the status is error, teardown has run,
\* and the denied startSession has created no peer connection (so it has sent
\* no SDP offer).
C11_MicDeniedIsError ==
  lastOp = "micDenied" =>
    /\ hk.connectionStatus = "error"
    /\ hk.timers = {} /\ hk.peerConnectionRef = NULL /\ hk.localStreamRef = NULL
    /\ \A i \in Starts :
         (hk.pos[i] = "failed" /\ hk.streams[i] = "none") => hk.pcs[i] = "none"

\* C12: the ledger is exactly one assistant entry per final assistant
\* transcript received, in arrival order, and nothing else.
C12_LedgerIsFinalTranscripts ==
  hk.transcription =
    [k \in 1..Len(finals) |-> [speaker |-> "Efa", text |-> finals[k], isLocal |-> FALSE,
             confidence |-> Undefined]]

\* the duration in ms of size bytes recorded at the configured bit rate
DurationMs(size) == (size * 8 * 1000) \div AudioBitsPerSecond

\* the step dispatches a recorder's stop event: the buffer is flushed
Flushes == lw'.stopEvents # lw.stopEvents /\ lw'.stopEvents \subseteq lw.stopEvents

\* C13: a flushed buffer shorter than MIN_AUDIO_LENGTH issues no
\* transcription request and delivers nothing.
C13_ShortBufferDiscarded ==
  [][(Flushes /\ DurationMs(BlobSize(lw.audioChunksRef)) < MIN_AUDIO_LENGTH)
       => (lw'.requests = lw.requests /\ lw'.nRequests = lw.nRequests
           /\ delivered' = delivered /\ hk' = hk)]_vars

\* recorder 1 was flushed with 0.3 s of audio and no request was issued
C13_Witness ==
  /\ Len(lw.recorders) = 1 /\ lw.recorders[1] = "inactive" /\ lw.stopEvents = {}
  /\ lw.audioChunksRef = <<4800>>
  /\ lw.nRequests = 0

\* C14: a flushed buffer of at least MIN_AUDIO_LENGTH at the configured bit
\* rate is submitted for transcription.
C14_LongBufferSubmitted ==
  [][(Flushes /\ lw.enabled
        /\ DurationMs(BlobSize(lw.audioChunksRef)) >= MIN_AUDIO_LENGTH)
       => lw'.nRequests = lw.nRequests + 1]_vars

\* the step delivers a result whose request was issued in the live session
DeliversLive ==
  /\ Len(delivered') = Len(delivered) + 1
  /\ delivered'[Len(delivered')].issued = delivered'[Len(delivered')].at

TimeoutStops(t) ==
  /\ t \in lw.timers /\ t \notin lw'.timers
  /\ lw'.silenceTimeoutRef = lw.silenceTimeoutRef
  /\ lw'.processingTimeoutRef = lw.processingTimeoutRef
  /\ lw.mediaRecorderRef # NULL
  /\ lw.recorders[lw.mediaRecorderRef] = "recording"
  /\ lw'.recorders[lw.mediaRecorderRef] = "inactive"

\* C16: while chunks keep arriving (the last one less than SILENCE_THRESHOLD
\* ago) a recording is stopped only by its own maximum-recording timeout,
\* MAX_AUDIO_LENGTH after its start.
C16_ContinuousStreamRunsToMax ==
  [][\A t \in lw.timers :
       (TimeoutStops(t) /\ clock - heard < Seconds(SILENCE_THRESHOLD))
         => (t.kind = "max" /\ t.id = lw.processingTimeoutRef)]_vars

\* C17: after the page unloads or the component unmounts during a session
\* that is connecting or connected, the peer connection the hook holds is
\* closed, its microphone stream is stopped and no idle timeout is pending.
C17_LeavingTearsDown ==
  (lastOp \in {"unload", "unmount"} /\ hk.connectionStatus \in {"connecting", "connected"})
    => /\ hk.peerConnectionRef # NULL => hk.pcs[hk.peerConnectionRef] = "closed"
       /\ hk.localStreamRef # NULL => hk.streams[hk.localStreamRef] = "stopped"
       /\ hk.timers = {}

\* C18: no session whose data channel is open is older than
\* HardLimitMinutes.
C18_HardLimit ==
  \A i \in Starts :
    (hk.dcs[i] /\ hk.peerConnectionRef = i)
      => now - hk.sessionStartTimeRef <= HardLimitMinutes

\* the frames of sender src passed to send are some of the frames received
\* from src, in arrival order, each at most once and as they arrived
DeliveredAsReceived(sent, src) ==
  LET f == SelectSeq(sent, LAMBDA x : x.src = src) IN
  /\ \A k \in 1..Len(f) :
       /\ f[k].n \in 1..Len(received) /\ received[f[k].n].src = src
       /\ f[k].kind = received[f[k].n].kind
       /\ f[k].body = "data"
  /\ \A j, k \in 1..Len(f) : j < k => f[j].n < f[k].n

\* C19: in each direction the frames delivered are a subsequence of the
\* frames received, in order, each at most once and unmodified.
C19_DeliveredUnmodifiedInOrder ==
  /\ DeliveredAsReceived(toClient, "openai")
  /\ DeliveredAsReceived(toOpenai, "client")

\* C20: a verifyOTP call made more than OtpMinutes after the stored OTP was
\* issued fails and leaves no OTP stored for the phone number, and a call
\* with a code other than the stored one fails.
C20_OtpExpiresAndMustMatch ==
  (verdict # NoVerdict /\ verdict.stored # NoOtp) =>
    /\ verdict.calledAt > verdict.issued + OtpMinutes
         => (~verdict.success /\ otpStorage[verdict.phone] = NoOtp)
    /\ verdict.otp # verdict.stored.code => ~verdict.success

\* a call with the right code just failed because the OTP had expired, and
\* the OTP is gone
C20_Witness ==
  /\ verdict # NoVerdict /\ verdict.stored # NoOtp
  /\ verdict.otp = verdict.stored.code
  /\ verdict.calledAt > verdict.issued + OtpMinutes
  /\ ~verdict.success
  /\ otpStorage[verdict.phone] = NoOtp

\* C21: when the transport has just reported failed, the status is error
\* and teardown has run: no countdown is armed, the peer connection has been
\* closed and dropped, and the microphone has been released.
C21_TransportFailureTearsDown ==
  lastOp = "pcFailed" =>
    /\ hk.connectionStatus = "error"
    /\ hk.timers = {} /\ hk.idleTimeoutRef = NULL
    /\ hk.peerConnectionRef = NULL
    /\ hk.localStreamRef = NULL
    /\ \A i \in Starts : hk.streams[i] # "live"

\* C22: after teardown, as long as no new session has been started, no idle
\* countdown is armed.
C22_NoCountdownAfterTeardown ==
  audit.tornDown => (hk.timers = {} /\ hk.idleTimeoutRef = NULL)

\* the handlers of inbound events: dataChannel.onmessage, tagged with the
\* type of the message it received, and pc.ontrack
InboundOps == EventTypes \cup Unparseable \cup {"ontrack"}

\* C23: every data-channel message, of whatever type and unparseable ones
\* included, and every remote track event restarts the idle countdown: right
\* after it the one armed countdown is due IdleMinutes later; and the
\* countdown fires no earlier than IdleMinutes after the last restart.
C23_EveryEventRestartsCountdown ==
  /\ lastOp \in InboundOps =>
       /\ hk.lastActivityTimeRef = now
       /\ hk.idleTimeoutRef # NULL
       /\ hk.timers = {[id |-> hk.idleTimeoutRef, due |-> now + IdleMinutes]}
  /\ lastOp = "idleExpiry" => now >= hk.lastActivityTimeRef + IdleMinutes

\* an unparseable message has arrived at least a minute after the data
\* channel opened and has restarted the countdown
C23_Witness ==
  /\ lastOp = "malformed"
  /\ hk.sessionStartTimeRef >= Epoch
  /\ now > hk.sessionStartTimeRef
  /\ hk.timers = {[id |-> hk.idleTimeoutRef, due |-> now + IdleMinutes]}

\* C24: from the moment a start request has moved the session to
\* connecting, an idle countdown is armed.
C24_CountdownArmedAtStart ==
  hk.connectionStatus = "connecting" =>
    (hk.idleTimeoutRef # NULL /\ hk.timers # {})

\* the call whose peer connection the hook holds: the current session
CurrentSession == hk.peerConnectionRef

\* C25: when the idle countdown fires, it reports the hard limit exactly
\* when HardLimitMinutes have passed since the start of the current
\* session, and the start time it uses was set by the current session.
C25_ExpiryReportsHardLimit ==
  [][lastOp' = "idleExpiry" =>
       /\ audit'.report \in {"idle", "hard"}
       /\ audit.openedFor # 0 /\ audit.openedFor = CurrentSession
       /\ hk.sessionStartTimeRef >= Epoch
       /\ audit'.report = "hard" <=> (now - hk.sessionStartTimeRef >= HardLimitMinutes)
       /\ hk'.connectionStatus = "idle"]_vars

\* the message types that must leave the ledger alone: partial assistant
\* transcripts, speech started and stopped, turn complete, error, and
\* unrecognized ones
NonAppendingTypes ==
  {"response.audio_transcript.delta", "input_audio_buffer.speech_started",
   "input_audio_buffer.speech_stopped", "response.done", "error", "other"}

\* C26: a partial assistant transcript, a speech-started or speech-stopped
\* event, a turn-complete event (response.done), an error event or an
\* unrecognized event leaves the ledger unchanged.
C26_OnlyFinalsAppend ==
  [][lastOp' \in NonAppendingTypes => hk'.transcription = hk.transcription]_vars

\* C27: an unparseable data-channel message is discarded: the handler does
\* not throw, and the status, the session id and the ledger are as before.
C27_MalformedDiscarded ==
  [][lastOp' \in Unparseable =>
       /\ ~audit'.threw
       /\ hk'.connectionStatus = hk.connectionStatus
       /\ hk'.sessionId = hk.sessionId
       /\ hk'.transcription = hk.transcription
       /\ hk'.isSessionActive = hk.isSessionActive]_vars

\* C28: the status becomes connected only when the transport has reported an
\* established connection and a non-empty final assistant transcript has
\* been received since the last teardown.
C28_ConnectedAfterTransportAndWelcome ==
  [][(hk.connectionStatus # "connected" /\ hk'.connectionStatus = "connected") =>
       /\ hk'.isSessionActive
       /\ \E i \in Starts : hk'.pcs[i] = "connected"
       /\ finals' # << >>]_vars

\* C29: with no API key on the server, the session never enters connecting.
C29_NoKeyNeverConnecting == ~apiKey => hk.connectionStatus # "connecting"

\* C30: the silence timeout of the recording in progress is due no earlier
\* than SILENCE_THRESHOLD after the last audio chunk received.
C30_ChunkResetsSilenceTimer ==
  \A t \in lw.timers :
    (t.kind = "silence" /\ t.id = lw.silenceTimeoutRef /\ lw.isRecording)
      => t.due >= heard + Seconds(SILENCE_THRESHOLD)

\* the recorder in use was stopped by one of its timeouts: it is inactive and
\* the timeout references are still held (stopRecording and cleanup clear them)
FlushedByTimeout ==
  /\ lw.enabled
  /\ lw.mediaRecorderRef # NULL
  /\ lw.recorders[lw.mediaRecorderRef] = "inactive"
  /\ lw.silenceTimeoutRef # NULL

\* C31: after a timeout has flushed a recording, the transcriber is
\* eventually recording again unless the session is torn down (looked at
\* while another recording can still be explored).
C31_NextUtteranceAccumulates ==
  []((FlushedByTimeout /\ Len(lw.recorders) < MaxRecordings)
       => <>(lw.isRecording \/ lw.mediaRecorderRef = NULL))

\* C32: when a transcription request issued in the live session fails, one
\* entry is appended to the transcript and the connection status, the
\* recorders, the timeouts and the stream are left as they were.
C32_FailureAddsFallbackEntry ==
  [][\A q \in lw.requests :
       (TranscribeFailed(q) /\ q.gen = teardowns)
         => /\ Len(hk'.transcription) = Len(hk.transcription) + 1
            /\ hk'.connectionStatus = hk.connectionStatus
            /\ lw'.recorders = lw.recorders
            /\ lw'.timers = lw.timers
            /\ lw'.streamRef = lw.streamRef]_vars

\* the recording whose startRecording call armed timeout t: each call creates
\* one recorder and arms two timeouts
RecordingOf(t) == (t.id + 1) \div 2

\* C37: a timeout stops only the recording it was armed for.
C37_TimeoutStopsOwnRecording ==
  [][\A t \in lw.timers :
       TimeoutStops(t) => RecordingOf(t) = lw.mediaRecorderRef]_vars

Closed == {"CLOSING", "CLOSED"}

\* C33: the error handler of either leg of an attached relay pair leaves the
\* other leg closing or closed.
C33_ErrorClosesOtherLeg ==
  [][setup = "attached" =>
       /\ UpstreamError => clientWs' \in Closed
       /\ ClientError => openaiWs' \in Closed]_vars

\* C36: for a client that closed while the persona lookup was awaited, no
\* upstream connection is open.
C36_NoUpstreamForGoneClient == closedAt = "lookup" => openaiWs # "OPEN"

\* C39: while the page shows the in-call view the hook's status is connecting
\* or connected, so the end-call control takes handleCallClick's stop branch.
C39_InCallViewMeansLiveSession ==
  (ui.mounted /\ ui.isInCall) => hk.connectionStatus \in {"connecting", "connected"}

\* the ledger entries that are the synthetic greeting
Greetings == {k \in 1..Len(hk.transcription) : hk.transcription[k].text = "greeting"}

\* C40: in the transport revision at most one latency interval is armed, none
\* is armed once teardown has run, and the ledger of a session holds at most
\* one greeting.
C40_OneLatencyIntervalOneGreeting ==
  rev = "transport" =>
    /\ Cardinality(hk.intervals) <= 1
    /\ audit.tornDown => hk.intervals = {}
    /\ Cardinality(Greetings) <= 1

\* C35: stopping a connected session, by the caller or by the idle timeout,
\* leaves the connection status disconnected.
C35_StopMovesToDisconnected ==
  [][(hk.connectionStatus = "connected" /\ lastOp' \in {"stopSession", "idleExpiry"})
       => hk'.connectionStatus = "disconnected"]_vars

IsPrefix(a, b) == Len(a) <= Len(b) /\ SubSeq(b, 1, Len(a)) = a

\* the ledger entry of a final assistant text
StreamEntry(text) ==
  [speaker |-> "Efa", text |-> text, isLocal |-> FALSE, confidence |-> Undefined]

\* C34: a step that is not a teardown leaves the ledger it found as a prefix
\* of the ledger it leaves, and a data-channel event that carries a final
\* text appends that text's entry at the end.
C34_LedgerAppendOnlyInArrivalOrder ==
  [][lastOp' \notin StopOps =>
       /\ IsPrefix(hk.transcription, hk'.transcription)
       /\ finals' # finals =>
            hk'.transcription =
              Append(hk.transcription, StreamEntry(finals'[Len(finals')]))]_vars

\* two final texts arrived in one session and the ledger holds their entries
\* in that order
C34_Witness ==
  /\ finals = <<"hi", "Hello!">>
  /\ Len(hk.transcription) >= 2
  /\ hk.transcription[Len(hk.transcription) - 1].text = "hi"
  /\ hk.transcription[Len(hk.transcription)].text = "Hello!"

\* C38: no issued OTP has authenticated more than one verifyOTP call.
C38_OtpAuthenticatesOnce ==
  \A n \in 1..MaxOtps : authenticated[n] <= 1

====
